---- MODULE Spec2Model ----
(***************************************************************************)
(* Budget-Tracker: the transaction ingestion and normalisation pipeline    *)
(* of budget_tracker.py (clean_description, clean_transaction_data), the   *)
(* upload tab with its import, and the View page with its edit, delete and *)
(* reset forms over the transactions table.                                *)
(*                                                                         *)
(* Text is a sequence of one-character strings.  A table cell is a record  *)
(* [na, text]: na = TRUE is a missing value (NaN/None), otherwise text is  *)
(* the cell's string.  An optional value (a DataFrame or None, a message   *)
(* or None) is a sequence of length 0 (None) or 1.                         *)
(* Library behaviour follows pandas 2.x: astype(str) renders a missing     *)
(* value as the text "nan"; to_datetime raises on an unparseable string.   *)
(***************************************************************************)
EXTENDS Integers, Sequences, FiniteSets, TLC

VARIABLES
    nIn, nOut, nAgain, npc,
    aIn, aOut, apc,
    df, date_col, desc_col, amount_col, category_col,
    clean_df, clean_error, pc,
    uploaded_file, parse_result, processed_df, show_import, store, last_id,
    imported_count, import_error, db_log,
    page, selected, editing_id, deleting_id, show_reset_confirm,
    calls

normVars == <<nIn, nOut, nAgain, npc>>
amtVars  == <<aIn, aOut, apc>>
pipeVars == <<df, date_col, desc_col, amount_col, category_col, clean_df, clean_error, pc>>
appVars  == <<uploaded_file, parse_result, processed_df, show_import, store, last_id>>
impVars  == <<imported_count, import_error, db_log>>
viewVars == <<page, selected, editing_id, deleting_id, show_reset_confirm>>
concVars == <<calls>>
vars     == <<nIn, nOut, nAgain, npc, aIn, aOut, apc,
              df, date_col, desc_col, amount_col, category_col, clean_df, clean_error, pc,
              uploaded_file, parse_result, processed_df, show_import, store, last_id,
              imported_count, import_error, db_log,
              page, selected, editing_id, deleting_id, show_reset_confirm,
              calls>>

(* ------------------------------ bounds --------------------------------- *)
MaxTokens == 3
MaxAmtLen == 3
MaxRows == 2
MaxStore == 4
MaxTxns == 2

(* ------------------------------ values --------------------------------- *)
None == <<>>
Some(x) == <<x>>

NA == [na |-> TRUE, text |-> <<>>]
Text(s) == [na |-> FALSE, text |-> s]

\* Whitespace as str.strip(), str.split() and the regex class \s see it.
WS == {" ", "\t"}

Lower(c) ==
    CASE c = "A" -> "a" [] c = "B" -> "b" [] c = "D" -> "d" [] c = "E" -> "e"
      [] c = "I" -> "i" [] c = "L" -> "l" [] c = "O" -> "o" [] c = "P" -> "p"
      [] c = "Q" -> "q" [] c = "S" -> "s" [] c = "T" -> "t" [] c = "Y" -> "y"
      [] c = "X" -> "x"
      [] OTHER -> c

(* ------------------------- string primitives --------------------------- *)
\* Index of the first non-whitespace character of s, Len(s)+1 when none.
RECURSIVE FirstNonWS(_, _)
FirstNonWS(s, i) ==
    IF i > Len(s) THEN i
    ELSE IF s[i] \in WS THEN FirstNonWS(s, i + 1) ELSE i

\* Index of the last non-whitespace character of s, 0 when none.
RECURSIVE LastNonWS(_, _)
LastNonWS(s, i) ==
    IF i < 1 THEN 0
    ELSE IF s[i] \in WS THEN LastNonWS(s, i - 1) ELSE i

\* str.strip()
Strip(s) == SubSeq(s, FirstNonWS(s, 1), LastNonWS(s, Len(s)))

\* ' '.join(text.split()): whitespace runs collapsed, none at either end.
RECURSIVE JoinSplit(_, _, _, _)
JoinSplit(s, i, acc, gap) ==
    IF i > Len(s) THEN acc
    ELSE IF s[i] \in WS THEN JoinSplit(s, i + 1, acc, acc # <<>>)
    ELSE JoinSplit(s, i + 1, (IF gap THEN Append(acc, " ") ELSE acc) \o <<s[i]>>, FALSE)

\* Whether text starts with the literal p, ignoring case (re.IGNORECASE).
StartsWithCI(text, p) ==
    /\ Len(text) >= Len(p)
    /\ \A i \in 1..Len(p) : Lower(text[i]) = Lower(p[i])

\* A variant that matches the pattern's letters as written (no IGNORECASE).
ReSubPrefix_case_sensitive(p, text) ==
    IF Len(text) >= Len(p) /\ SubSeq(text, 1, Len(p)) = p
    THEN SubSeq(text, FirstNonWS(text, Len(p) + 1), Len(text))
    ELSE text

\* re.sub('^' + p + '\s*', '', text, flags=re.IGNORECASE): the pattern is
\* anchored at the start, so at most one match; \s* is greedy.
ReSubPrefix(p, text) ==
    IF StartsWithCI(text, p)
    THEN SubSeq(text, FirstNonWS(text, Len(p) + 1), Len(text))
    ELSE text

(* --------------------------- clean_description ------------------------- *)
prefixes_to_remove ==
    << <<"T", "S", "T", "*">>,
       <<"S", "Q", " ", "*">>,
       <<"P", "P", "*">>,
       <<"S", "P", " ", "*">>,
       <<"P", "A", "Y", "P", "A", "L", " ", "*">>,
       <<"P", "O", "S">>,
       <<"D", "E", "B", "I", "T">> >>

\* for prefix in prefixes_to_remove: text = re.sub(prefix, '', text, ...)
RECURSIVE RemovePrefixes(_, _)
RemovePrefixes(text, k) ==
    IF k > Len(prefixes_to_remove) THEN text
    ELSE RemovePrefixes(ReSubPrefix(prefixes_to_remove[k], text), k + 1)

\* A variant that stops at the first pattern that matches.
RECURSIVE RemoveFirstPrefix(_, _)
RemoveFirstPrefix(text, k) ==
    IF k > Len(prefixes_to_remove) THEN text
    ELSE IF StartsWithCI(text, prefixes_to_remove[k])
         THEN ReSubPrefix(prefixes_to_remove[k], text)
         ELSE RemoveFirstPrefix(text, k + 1)

clean_description_first_only(description) ==
    IF description.na \/ description.text = <<>> THEN <<>>
    ELSE JoinSplit(RemoveFirstPrefix(Strip(description.text), 1), 1, <<>>, FALSE)

\* A variant without the final ' '.join(text.split()).
clean_description_uncollapsed(description) ==
    IF description.na \/ description.text = <<>> THEN <<>>
    ELSE RemovePrefixes(Strip(description.text), 1)

\* A variant without the guard of line 50: a missing value goes through
\* str(), which renders it as "nan".
clean_description_unguarded(description) ==
    LET text == Strip(IF description.na THEN <<"n", "a", "n">> ELSE description.text)
    IN  JoinSplit(RemovePrefixes(text, 1), 1, <<>>, FALSE)

clean_description(description) ==
    IF description.na \/ description.text = <<>> THEN <<>>
    ELSE LET text == Strip(description.text)
             stripped == RemovePrefixes(text, 1)
         IN  JoinSplit(stripped, 1, <<>>, FALSE)

(* ----------------------- normaliser inputs ----------------------------- *)
Tokens ==
    { <<"T", "S", "T", "*">>, <<"S", "Q", " ", "*">>, <<"P", "P", "*">>,
      <<"S", "P", " ", "*">>, <<"P", "A", "Y", "P", "A", "L", " ", "*">>,
      <<"P", "O", "S">>, <<"D", "E", "B", "I", "T">>,
      <<"p", "o", "s">>, <<"s", "q", " ", "*">>,
      <<" ">>, <<"\t">>, <<"X">>, <<"*">>, <<"P">> }

RECURSIVE Concat(_, _)
Concat(ts, i) == IF i > Len(ts) THEN <<>> ELSE ts[i] \o Concat(ts, i + 1)

NormTexts == { Concat(ts, 1) : ts \in UNION { [1..n -> Tokens] : n \in 0..MaxTokens } }

Lakewood ==
    <<"T", "S", "T", "*", "L", "A", "K", "E", "W", "O", "O", "D", " ",
      "T", "R", "U", "C", "K", " ", "P", "A">>
CoffeeShop ==
    <<" ", " ", "S", "Q", " ", "*", " ", " ", " ", "C", "o", "f", "f", "e", "e",
      " ", " ", "S", "h", "o", "p", " ">>

\* whitespace at both ends and a run of three inside
Spaced == <<" ", "X", " ", "\t", " ", "P", "\t">>

NormInputs == { Text(s) : s \in NormTexts \cup {Lakewood, CoffeeShop, Spaced} } \cup {NA}

(* ------------------- normaliser specification -------------------------- *)
\* One description is cleaned (manual add, line 357; import, line 97) and the
\* stored result is cleaned again when its edit form is saved (line 652).
Clean ==
    /\ npc = "raw"
    /\ nOut' = clean_description(nIn)
    /\ npc' = "cleaned"
    /\ UNCHANGED <<nIn, nAgain, amtVars, pipeVars, appVars, impVars, viewVars, concVars>>

CleanAgain ==
    /\ npc = "cleaned"
    /\ nAgain' = clean_description(Text(nOut))
    /\ npc' = "recleaned"
    /\ UNCHANGED <<nIn, nOut, amtVars, pipeVars, appVars, impVars, viewVars, concVars>>

(* --------------------------- amount cleaning --------------------------- *)
Digits == {"0", "1", "2", "3", "4", "5", "6", "7", "8", "9"}

DigitVal(c) ==
    CASE c = "0" -> 0 [] c = "1" -> 1 [] c = "2" -> 2 [] c = "3" -> 3 [] c = "4" -> 4
      [] c = "5" -> 5 [] c = "6" -> 6 [] c = "7" -> 7 [] c = "8" -> 8 [] c = "9" -> 9

\* Series.astype(str): a missing value becomes the text "nan".
AsStr(cell) == IF cell.na THEN <<"n", "a", "n">> ELSE cell.text

\* str.replace(old, new, regex=False) for a one-character old; new is text.
RECURSIVE StrReplace(_, _, _)
StrReplace(s, old, new) ==
    IF s = <<>> THEN <<>>
    ELSE (IF Head(s) = old THEN new ELSE <<Head(s)>>) \o StrReplace(Tail(s), old, new)

\* A number is m * 10^(-e); kind "nan" is NaN, kind "inf" is an infinity.
Num(m, e) == [kind |-> "num", m |-> m, e |-> e]
NaN == [kind |-> "nan", m |-> 0, e |-> 0]
Inf(sign) == [kind |-> "inf", m |-> sign, e |-> 0]

\* The integer the digits of s spell, the decimal point skipped.
RECURSIVE DigitsValue(_, _)
DigitsValue(s, acc) ==
    IF s = <<>> THEN acc
    ELSE IF Head(s) = "." THEN DigitsValue(Tail(s), acc)
    ELSE DigitsValue(Tail(s), 10 * acc + DigitVal(Head(s)))

\* digits with at most one decimal point and at least one digit
IsDecimal(s) ==
    /\ \A i \in 1..Len(s) : s[i] \in Digits \cup {"."}
    /\ Cardinality({i \in 1..Len(s) : s[i] = "."}) <= 1
    /\ \E i \in 1..Len(s) : s[i] \in Digits

FracDigits(s) ==
    IF \E i \in 1..Len(s) : s[i] = "."
    THEN Len(s) - (CHOOSE i \in 1..Len(s) : s[i] = ".")
    ELSE 0

\* pd.to_numeric(..., errors='coerce') on one string: a signed decimal, the
\* words nan and inf, anything else coerced to NaN.
to_numeric(s) ==
    LET neg  == s # <<>> /\ Head(s) = "-"
        body == IF s # <<>> /\ Head(s) \in {"-", "+"} THEN Tail(s) ELSE s
    IN  IF IsDecimal(body)
        THEN Num((IF neg THEN -1 ELSE 1) * DigitsValue(body, 0), FracDigits(body))
        ELSE IF body = <<"i", "n", "f">> THEN Inf(IF neg THEN -1 ELSE 1)
        ELSE NaN

\* Series.abs()
Abs(x) == IF x.m < 0 THEN [x EXCEPT !.m = -x.m] ELSE x

\* A variant that keeps the sign (no .abs()).
CleanAmount_signed(cell) ==
    LET a1 == StrReplace(AsStr(cell), "$", <<>>)
        a2 == StrReplace(a1, ",", <<>>)
        a3 == StrReplace(a2, "(", <<"-">>)
        a4 == StrReplace(a3, ")", <<>>)
    IN  to_numeric(Strip(a4))

\* lines 100-107 for one cell of the amount column
CleanAmount(cell) ==
    LET a0 == AsStr(cell)
        a1 == StrReplace(a0, "$", <<>>)
        a2 == StrReplace(a1, ",", <<>>)
        a3 == StrReplace(a2, "(", <<"-">>)
        a4 == StrReplace(a3, ")", <<>>)
        a5 == Strip(a4)
    IN  Abs(to_numeric(a5))

\* x > 0 as pandas compares floats (False for NaN)
IsPositive(x) == x.kind # "nan" /\ x.m > 0

(* -------------------------- amount inputs ------------------------------ *)
AmtChars == {"0", "1", "5", ".", "-", "$", ",", "(", ")", " "}

AmtTexts == UNION { [1..n -> AmtChars] : n \in 0..MaxAmtLen }

AmtExamples ==
    { <<"$", "1", ",", "2", "3", "4", ".", "5", "6">>,
      <<"(", "4", "5", ".", "0", "0", ")">>,
      <<"1", "2", ".", "5", " ">>,
      <<"a", "b", "c">>, <<"i", "n", "f">>, <<"n", "a", "n">> }

AmtInputs == { Text(s) : s \in AmtTexts \cup AmtExamples } \cup {NA}

NormalizeAmount ==
    /\ apc = "raw"
    /\ aOut' = CleanAmount(aIn)
    /\ apc' = "done"
    /\ UNCHANGED <<aIn, normVars, pipeVars, appVars, impVars, viewVars, concVars>>

(* ----------------------------- dates ----------------------------------- *)
NaT == [nat |-> TRUE, y |-> 0, mo |-> 0, d |-> 0]
Timestamp(y, mo, d) == [nat |-> FALSE, y |-> y, mo |-> mo, d |-> d]

IsLeap(y) == (y % 4 = 0 /\ y % 100 # 0) \/ y % 400 = 0

DaysIn(y, mo) ==
    IF mo = 2 THEN (IF IsLeap(y) THEN 29 ELSE 28)
    ELSE IF mo \in {4, 6, 9, 11} THEN 30 ELSE 31

\* Whether pd.to_datetime accepts the text: here the month/day/year form
\* dd/dd/dddd naming a calendar day, and the empty string (which gives NaT).
DateParses(s) ==
    \/ s = <<>>
    \/ /\ Len(s) = 10
       /\ s[3] = "/" /\ s[6] = "/"
       /\ \A i \in {1, 2, 4, 5, 7, 8, 9, 10} : s[i] \in Digits
       /\ LET mo == DigitsValue(SubSeq(s, 1, 2), 0)
              d  == DigitsValue(SubSeq(s, 4, 5), 0)
              y  == DigitsValue(SubSeq(s, 7, 10), 0)
          IN  mo \in 1..12 /\ d >= 1 /\ d <= DaysIn(y, mo)

\* pd.to_datetime on one cell that it accepts
to_datetime(cell) ==
    IF cell.na \/ cell.text = <<>> THEN NaT
    ELSE Timestamp(DigitsValue(SubSeq(cell.text, 7, 10), 0),
                   DigitsValue(SubSeq(cell.text, 1, 2), 0),
                   DigitsValue(SubSeq(cell.text, 4, 5), 0))

DigitChar(n) ==
    CASE n = 0 -> "0" [] n = 1 -> "1" [] n = 2 -> "2" [] n = 3 -> "3" [] n = 4 -> "4"
      [] n = 5 -> "5" [] n = 6 -> "6" [] n = 7 -> "7" [] n = 8 -> "8" [] n = 9 -> "9"

\* .dt.strftime('%Y-%m-%d'): NaT gives a missing value
strftime(t) ==
    IF t.nat THEN NA
    ELSE Text(<< DigitChar((t.y \div 1000) % 10), DigitChar((t.y \div 100) % 10),
                 DigitChar((t.y \div 10) % 10), DigitChar(t.y % 10), "-",
                 DigitChar(t.mo \div 10), DigitChar(t.mo % 10), "-",
                 DigitChar(t.d \div 10), DigitChar(t.d % 10) >>)

(* ------------------------ clean_transaction_data ----------------------- *)
\* df.columns of every table of the model
Columns == {"Date", "Description", "Amount", "Category"}

Uncategorized ==
    <<"U", "n", "c", "a", "t", "e", "g", "o", "r", "i", "z", "e", "d">>

\* A variant that hands back an (empty) frame together with the message.
Failure_with_frame(exc, arg) ==
    [df |-> Some(<<>>),
     error |-> Some([prefix |-> "Error processing data: ", exc |-> exc, arg |-> arg])]

Failure(exc, arg) ==
    [df |-> None,
     error |-> Some([prefix |-> "Error processing data: ", exc |-> exc, arg |-> arg])]

\* line 110: if category_col and category_col in df.columns
CategoryMapped(cc) == cc # None /\ cc[1] \in Columns

\* A variant that keeps the category text untrimmed (no .str.strip()).
CleanRow_untrimmed(d, i, dc, sc, ac, cc) ==
    [index |-> i,
     date |-> strftime(to_datetime(d[i][dc])),
     description |-> clean_description(Text(AsStr(d[i][sc]))),
     amount |-> CleanAmount(d[i][ac]),
     category |-> IF CategoryMapped(cc) THEN AsStr(d[i][cc[1]]) ELSE Uncategorized]

\* lines 93-113: the columns of clean_df for row i of the table
CleanRow(d, i, dc, sc, ac, cc) ==
    LET raw_description == AsStr(d[i][sc])
    IN  [index |-> i,
         date |-> strftime(to_datetime(d[i][dc])),
         description |-> clean_description(Text(raw_description)),
         amount |-> CleanAmount(d[i][ac]),
         category |-> IF CategoryMapped(cc)
                      THEN Strip(AsStr(d[i][cc[1]]))
                      ELSE Uncategorized]

\* lines 116-118: dropna(subset=['date','amount']), amount > 0, description != ''
KeepRow(r) ==
    /\ ~r.date.na
    /\ r.amount.kind # "nan"
    /\ IsPositive(r.amount)
    /\ r.description # <<>>

\* A variant that collects the kept rows last-first.
RECURSIVE SelectRows_reversed(_, _)
SelectRows_reversed(rows, i) ==
    IF i > Len(rows) THEN <<>>
    ELSE SelectRows_reversed(rows, i + 1) \o (IF KeepRow(rows[i]) THEN <<rows[i]>> ELSE <<>>)

RECURSIVE SelectRows(_, _)
SelectRows(rows, i) ==
    IF i > Len(rows) THEN <<>>
    ELSE (IF KeepRow(rows[i]) THEN <<rows[i]>> ELSE <<>>) \o SelectRows(rows, i + 1)

\* line 121: the four output columns (the row keeps its index label)
OutputRow(r) ==
    [index |-> r.index, date |-> r.date.text, description |-> r.description,
     amount |-> r.amount, category |-> r.category]

\* A variant that looks the category column up whenever one is named, so a
\* name absent from the header raises KeyError.
clean_transaction_data_strict(d, dc, sc, ac, cc) ==
    IF cc # None /\ cc[1] \notin Columns THEN Failure("KeyError", cc[1])
    ELSE IF dc \notin Columns THEN Failure("KeyError", dc)
    ELSE IF \E i \in 1..Len(d) : ~d[i][dc].na /\ ~DateParses(d[i][dc].text)
         THEN Failure("ValueError", dc)
    ELSE IF sc \notin Columns THEN Failure("KeyError", sc)
    ELSE IF ac \notin Columns THEN Failure("KeyError", ac)
    ELSE LET rows == [i \in 1..Len(d) |-> CleanRow(d, i, dc, sc, ac, cc)]
             kept == SelectRows(rows, 1)
         IN  [df |-> Some([i \in 1..Len(kept) |-> OutputRow(kept[i])]),
              error |-> None]

clean_transaction_data(d, dc, sc, ac, cc) ==
    IF dc \notin Columns THEN Failure("KeyError", dc)
    ELSE IF \E i \in 1..Len(d) : ~d[i][dc].na /\ ~DateParses(d[i][dc].text)
         THEN Failure("ValueError", dc)
    ELSE IF sc \notin Columns THEN Failure("KeyError", sc)
    ELSE IF ac \notin Columns THEN Failure("KeyError", ac)
    ELSE LET rows == [i \in 1..Len(d) |-> CleanRow(d, i, dc, sc, ac, cc)]
             kept == SelectRows(rows, 1)
         IN  [df |-> Some([i \in 1..Len(kept) |-> OutputRow(kept[i])]),
              error |-> None]

(* -------------------------- pipeline inputs ---------------------------- *)
Date0115 == <<"0", "1", "/", "1", "5", "/", "2", "0", "2", "4">>
Date0116 == <<"0", "1", "/", "1", "6", "/", "2", "0", "2", "4">>
BadDate  == <<"b", "a", "d", "-", "d", "a", "t", "e">>
JoesDiner ==
    <<"T", "S", "T", "*", "J", "O", "E", "S", " ", "D", "I", "N", "E", "R">>
PosOnly == <<"P", "O", "S">>
Amt2345 == <<"$", "2", "3", ".", "4", "5">>
Food == <<" ", "F", "o", "o", "d", " ">>

DateCells == { Text(Date0115), Text(Date0116), Text(BadDate), NA }
DescCells == { Text(JoesDiner), Text(PosOnly), Text(<<" ", " ">>), Text(<<>>),
               Text(<<"X">>), NA }
AmountCells == { Text(Amt2345), Text(<<"(", "1", "0", ".", "0", "0", ")">>),
                 Text(<<"a", "b", "c">>), Text(<<"0">>), Text(<<"i", "n", "f">>), NA }
CategoryCells == { Text(Food), Text(<<" ", " ">>), NA }

Row(d, s, a, c) ==
    [col \in Columns |->
        CASE col = "Date" -> d [] col = "Description" -> s
          [] col = "Amount" -> a [] col = "Category" -> c]

BaseRow == Row(Text(Date0115), Text(JoesDiner), Text(Amt2345), Text(Food))

\* The rows of the model: the base row with at most one cell replaced.
RowPool ==
    { [BaseRow EXCEPT !["Date"] = d] : d \in DateCells }
    \cup { [BaseRow EXCEPT !["Description"] = s] : s \in DescCells }
    \cup { [BaseRow EXCEPT !["Amount"] = a] : a \in AmountCells }
    \cup { [BaseRow EXCEPT !["Category"] = c] : c \in CategoryCells }

\* the three-row statement of the end-to-end scenario (no category column:
\* its Category cells are missing and the column is left unmapped)
ExampleTable ==
    << Row(Text(Date0115), Text(JoesDiner), Text(Amt2345), NA),
       Row(Text(BadDate), Text(<<"X">>), Text(<<"$", "5">>), NA),
       Row(Text(Date0116),
           Text(<<"P", "O", "S", " ", "W", "A", "L", "M", "A", "R", "T">>),
           Text(<<"(", "1", "0", ".", "0", "0", ")">>), NA) >>

Tables == UNION { [1..n -> RowPool] : n \in 0..MaxRows } \cup {ExampleTable}

NoColumn == "Missing"

(* --------------------------- parse_uploaded_file ----------------------- *)
\* str.endswith
EndsWith(s, suffix) ==
    /\ Len(s) >= Len(suffix)
    /\ SubSeq(s, Len(s) - Len(suffix) + 1, Len(s)) = suffix

\* An uploaded file is its name and its content; the content is what it
\* really holds (format "csv", "excel" or "corrupt") and, for a readable
\* one, the table its parser yields.
File(name, format, table) == [name |-> name, format |-> format, table |-> table]

Message(prefix, exc, arg) == [prefix |-> prefix, exc |-> exc, arg |-> arg]

\* pd.read_csv / pd.read_excel: the table, or an exception on content that
\* is not of the parser's format.
Readable(f, format) == f.format = format

\* A variant that falls back on the content when the extension is unknown.
parse_uploaded_file_sniffing(f) ==
    IF f.format \in {"csv", "excel"}
    THEN [df |-> Some(f.table), error |-> None]
    ELSE [df |-> None, error |-> Some(Message("Error reading file: ", "ParserError", ""))]

\* A variant whose unknown-extension branch returns no message.
parse_uploaded_file_silent(f) ==
    IF EndsWith(f.name, <<".", "c", "s", "v">>) /\ Readable(f, "csv")
    THEN [df |-> Some(f.table), error |-> None]
    ELSE [df |-> None, error |-> None]

parse_uploaded_file(f) ==
    IF EndsWith(f.name, <<".", "c", "s", "v">>)
    THEN IF Readable(f, "csv")
         THEN [df |-> Some(f.table), error |-> None]
         ELSE [df |-> None, error |-> Some(Message("Error reading file: ", "ParserError", ""))]
    ELSE IF EndsWith(f.name, <<".", "x", "l", "s", "x">>)
            \/ EndsWith(f.name, <<".", "x", "l", "s">>)
    THEN IF Readable(f, "excel")
         THEN [df |-> Some(f.table), error |-> None]
         ELSE [df |-> None, error |-> Some(Message("Error reading file: ", "ValueError", ""))]
    ELSE [df |-> None, error |-> Some(Message("Please upload a CSV or Excel file", "", ""))]

(* ------------------------------ the store ------------------------------ *)
\* The rows appended to the table, in order, ids from the AUTOINCREMENT
\* sequence (line 24).
RECURSIVE InsertRows(_, _, _, _)
InsertRows(table, rows, i, id) ==
    IF i > Len(rows) THEN table
    ELSE InsertRows(Append(table, [id |-> id + 1,
                                   date |-> rows[i].date,
                                   description |-> rows[i].description,
                                   amount |-> rows[i].amount,
                                   category |-> rows[i].category]),
                    rows, i + 1, id + 1)

\* A variant that skips a row already in the table (deduplication).
RECURSIVE InsertNewRows(_, _, _, _)
InsertNewRows(table, rows, i, id) ==
    IF i > Len(rows) THEN table
    ELSE IF \E k \in 1..Len(table) :
                /\ table[k].date = rows[i].date
                /\ table[k].description = rows[i].description
                /\ table[k].amount = rows[i].amount
                /\ table[k].category = rows[i].category
         THEN InsertNewRows(table, rows, i + 1, id)
         ELSE InsertNewRows(Append(table, [id |-> id + 1,
                                           date |-> rows[i].date,
                                           description |-> rows[i].description,
                                           amount |-> rows[i].amount,
                                           category |-> rows[i].category]),
                            rows, i + 1, id + 1)

\* The statements one connection executes, and what the database keeps of
\* them: the inserts made before the last commit (a connection dropped with
\* an open transaction is rolled back, its ids with it).
Insert(row) == [op |-> "INSERT", row |-> row]
Commit == [op |-> "COMMIT"]

RECURSIVE LastCommit(_, _)
LastCommit(log, i) ==
    IF i < 1 THEN 0
    ELSE IF log[i].op = "COMMIT" THEN i ELSE LastCommit(log, i - 1)

Durable(log) ==
    LET kept == SubSeq(log, 1, LastCommit(log, Len(log)))
        ins  == SelectSeq(kept, LAMBDA st : st.op = "INSERT")
    IN  [i \in 1..Len(ins) |-> ins[i].row]

\* The outcome of one call: fault = 0 when every statement succeeds, fault = k
\* when the k-th statement raises (sqlite3.Error); stmts is what the call
\* would execute.
Outcome(table, stmts, id, fault, n) ==
    LET log     == IF fault = 0 THEN stmts ELSE SubSeq(stmts, 1, fault - 1)
        durable == Durable(log)
    IN  [table |-> InsertRows(table, durable, 1, id),
         last_id |-> id + Len(durable),
         log |-> log,
         count |-> IF fault = 0 THEN Some(n) ELSE None,
         error |-> IF fault = 0 THEN None
                   ELSE Some(Message("Import failed: ", "sqlite3.Error", ""))]

\* A variant that skips a row already in the table (deduplication).
add_bulk_transactions_dedup(table, rows, id, fault) ==
    LET t   == InsertNewRows(table, rows, 1, id)
        new == [i \in 1..(Len(t) - Len(table)) |-> t[Len(table) + i]]
    IN  Outcome(table, [i \in 1..Len(new) |-> Insert(new[i])] \o <<Commit>>,
                id, fault, Len(new))

\* A variant that commits after every insert.
add_bulk_transactions_commit_each(table, rows, id, fault) ==
    Outcome(table,
            [i \in 1..(2 * Len(rows)) |->
                IF i % 2 = 1 THEN Insert(rows[(i + 1) \div 2]) ELSE Commit],
            id, IF fault = 0 THEN 0 ELSE 2 * fault - 1, Len(rows))

\* add_bulk_transactions (lines 155-169): one INSERT per row of the frame, in
\* order, one commit after the loop, the number of rows returned.
add_bulk_transactions(table, rows, id, fault) ==
    Outcome(table, [i \in 1..Len(rows) |-> Insert(rows[i])] \o <<Commit>>,
            id, fault, Len(rows))

(* ---------------------------- uploaded files --------------------------- *)
NameCsv  == <<"a", ".", "c", "s", "v">>
NameXlsx == <<"a", ".", "x", "l", "s", "x">>
NameXls  == <<"a", ".", "x", "l", "s">>
NameTxt  == <<"a", ".", "t", "x", "t">>
NameUpperCsv == <<"a", ".", "C", "S", "V">>

\* the files of the pipeline specification: every table as a CSV file, and
\* three files that cannot be loaded
SpecFiles ==
    { File(NameCsv, "csv", t) : t \in Tables }
    \cup { File(NameTxt, "csv", <<BaseRow>>), File(NameCsv, "corrupt", <<>>),
           File(NameXlsx, "csv", <<BaseRow>>) }

AbcRow == [BaseRow EXCEPT !["Amount"] = Text(<<"a", "b", "c">>)]

AppTables == UNION { [1..n -> {BaseRow, AbcRow}] : n \in 0..MaxRows }

\* the files of the application specification
AppFiles ==
    { File(NameCsv, "csv", t) : t \in AppTables }
    \cup { File(NameTxt, "csv", <<BaseRow>>) }
    \cup { File(n, "excel", <<BaseRow>>) : n \in {NameXlsx, NameXls, NameCsv, NameUpperCsv} }
    \cup { File(n, "corrupt", <<>>) : n \in {NameCsv, NameXls} }

(* --------------------------- pipeline actions -------------------------- *)
\* df, error before parse_uploaded_file returned anything
NoResult == [df |-> None, error |-> None]

\* imported_count, the caught exception and the connection's statements are
\* locals of the run in which Import was clicked
NoImport == imported_count = None /\ import_error = None /\ db_log = <<>>

\* A file is chosen in the uploader and the script runs parse_uploaded_file
\* on it (lines 381-388): on an error nothing below is rendered.
UploadFrom(files) ==
    /\ page = "Transactions"
    /\ \E f \in files :
          LET r == parse_uploaded_file(f)
          IN  /\ uploaded_file' = Some(f)
              /\ parse_result' = r
              /\ df' = IF r.df = None THEN <<>> ELSE r.df[1]
              /\ pc' = IF r.error = None THEN "loaded" ELSE "rejected"
    /\ clean_df' = None /\ clean_error' = None
    /\ UNCHANGED <<date_col, desc_col, amount_col, category_col,
                   processed_df, show_import, store, last_id,
                   normVars, amtVars, viewVars, concVars>>
    /\ imported_count' = None /\ import_error' = None /\ db_log' = <<>>

\* the first upload of a session
LoadTable == pc = "idle" /\ UploadFrom(SpecFiles)

\* any upload, also replacing the file chosen before
UploadFile == UploadFrom(AppFiles)

\* The arguments of the call are chosen (lines 398-409); the script reruns
\* without the Preview button pressed, so no clean_df exists in that run.
MapColumnsTo(pcs, dcs, scs, acs, ccs) ==
    /\ page = "Transactions"
    /\ pc \in pcs
    /\ \E dc \in dcs, sc \in scs, ac \in acs, cc \in ccs :
            /\ <<dc, sc, ac, cc>> # <<date_col, desc_col, amount_col, category_col>>
            /\ date_col' = dc /\ desc_col' = sc /\ amount_col' = ac
            /\ category_col' = cc
    /\ pc' = "loaded"
    /\ clean_df' = None /\ clean_error' = None
    /\ imported_count' = None /\ import_error' = None /\ db_log' = <<>>
    /\ UNCHANGED <<df, normVars, amtVars, appVars, viewVars, concVars>>

\* any argument of the call, present in the header or not, before the call
MapColumns ==
    MapColumnsTo({"loaded"}, {"Date", NoColumn}, {"Description", NoColumn}, {"Amount", NoColumn},
                 {None, Some("Category"), Some(NoColumn)})

\* the select boxes of the page offer the header's columns only (lines 398-409)
SelectColumns ==
    MapColumnsTo({"loaded", "previewed"},
                 {"Date"}, {"Description"}, {"Amount"}, {None, Some("Category")})

\* A variant whose cleaning writes the cleaned descriptions back into df.
Preview_inplace ==
    /\ page = "Transactions"
    /\ pc \in {"loaded", "previewed"}
    /\ LET r == clean_transaction_data(df, date_col, desc_col, amount_col, category_col)
       IN  /\ clean_df' = r.df
           /\ clean_error' = r.error
           /\ processed_df' = IF r.error = None THEN r.df ELSE processed_df
           /\ show_import' = IF r.error = None THEN TRUE ELSE show_import
    /\ df' = [i \in 1..Len(df) |->
                [df[i] EXCEPT !["Description"] = Text(clean_description(df[i]["Description"]))]]
    /\ pc' = "previewed"
    /\ UNCHANGED <<date_col, desc_col, amount_col, category_col,
                   uploaded_file, parse_result, store, last_id,
                   normVars, amtVars, viewVars, concVars>>
    /\ imported_count' = None /\ import_error' = None /\ db_log' = <<>>

\* Preview Processed Data (lines 412-450): the call of clean_transaction_data;
\* a successful result is kept in the session for the import.
Preview ==
    /\ page = "Transactions"
    /\ pc \in {"loaded", "previewed"}
    /\ LET r == clean_transaction_data(df, date_col, desc_col, amount_col, category_col)
       IN  /\ clean_df' = r.df
           /\ clean_error' = r.error
           /\ processed_df' = IF r.error = None THEN r.df ELSE processed_df
           /\ show_import' = IF r.error = None THEN TRUE ELSE show_import
    /\ pc' = "previewed"
    /\ UNCHANGED <<df, date_col, desc_col, amount_col, category_col,
                   uploaded_file, parse_result, store, last_id,
                   normVars, amtVars, viewVars, concVars>>
    /\ imported_count' = None /\ import_error' = None /\ db_log' = <<>>

\* A variant that leaves the preview in the session after a successful import.
Import_keeps_preview ==
    /\ page = "Transactions"
    /\ pc \in {"loaded", "previewed"}
    /\ show_import /\ processed_df # None
    /\ last_id + Len(processed_df[1]) <= MaxStore
    /\ \E fault \in 0..(Len(processed_df[1]) + 1) :
          LET r == add_bulk_transactions(store, processed_df[1], last_id, fault)
          IN  /\ store' = r.table
              /\ last_id' = r.last_id
              /\ db_log' = r.log
              /\ imported_count' = r.count
              /\ import_error' = r.error
    /\ pc' = "loaded"
    /\ clean_df' = None /\ clean_error' = None
    /\ UNCHANGED <<df, date_col, desc_col, amount_col, category_col,
                   uploaded_file, parse_result, show_import, processed_df,
                   normVars, amtVars, viewVars, concVars>>

\* Import All Transactions (lines 453-468), rendered only below a loaded file
\* and only while show_import is set and processed_df is in the session.  The
\* session is cleared after the call returned; an exception of the call is
\* caught and leaves it as it was.
ImportUpTo(max) ==
    /\ page = "Transactions"
    /\ pc \in {"loaded", "previewed"}
    /\ show_import /\ processed_df # None
    /\ last_id + Len(processed_df[1]) <= max
    /\ \E fault \in 0..(Len(processed_df[1]) + 1) :
          LET r == add_bulk_transactions(store, processed_df[1], last_id, fault)
          IN  /\ store' = r.table
              /\ last_id' = r.last_id
              /\ db_log' = r.log
              /\ imported_count' = r.count
              /\ import_error' = r.error
              /\ show_import' = IF r.error = None THEN FALSE ELSE show_import
              /\ processed_df' = IF r.error = None THEN None ELSE processed_df
    /\ pc' = "loaded"
    /\ clean_df' = None /\ clean_error' = None
    /\ UNCHANGED <<df, date_col, desc_col, amount_col, category_col,
                   uploaded_file, parse_result, normVars, amtVars, viewVars, concVars>>

Import == ImportUpTo(MaxStore)

(* ------------------------- single transactions ------------------------- *)
\* add_transaction (lines 127-135)
add_transaction(table, id, date, description, amount, category) ==
    Append(table, [id |-> id + 1, date |-> date, description |-> description,
                   amount |-> amount, category |-> category])

\* update_transaction (lines 137-146): UPDATE ... WHERE id = ?
update_transaction(table, transaction_id, date, description, amount, category) ==
    [k \in 1..Len(table) |->
        IF table[k].id = transaction_id
        THEN [id |-> transaction_id, date |-> date, description |-> description,
              amount |-> amount, category |-> category]
        ELSE table[k]]

\* delete_transaction (lines 148-153): DELETE ... WHERE id = ?
delete_transaction(table, transaction_id) ==
    SelectSeq(table, LAMBDA row : row.id # transaction_id)

\* clear_all_transactions (lines 177-182): the AUTOINCREMENT sequence stays
clear_all_transactions(table) == <<>>

Ids(table) == { table[k].id : k \in 1..Len(table) }

RowOf(table, id) == table[CHOOSE k \in 1..Len(table) : table[k].id = id]

\* the category select box of the manual and the edit form
categories ==
    << <<"F", "o", "o", "d", " ", "&", " ", "D", "i", "n", "i", "n", "g">>,
       <<"T", "r", "a", "n", "s", "p", "o", "r", "t", "a", "t", "i", "o", "n">>,
       <<"S", "h", "o", "p", "p", "i", "n", "g">>,
       <<"B", "i", "l", "l", "s", " ", "&", " ", "U", "t", "i", "l", "i", "t", "i", "e", "s">>,
       <<"E", "n", "t", "e", "r", "t", "a", "i", "n", "m", "e", "n", "t">>,
       <<"H", "e", "a", "l", "t", "h", "c", "a", "r", "e">>,
       <<"I", "n", "c", "o", "m", "e">>,
       <<"O", "t", "h", "e", "r">> >>

\* a or b of Python for texts: the empty text is false
Or(a, b) == IF a # <<>> THEN a ELSE b

\* str(date.today()) on the day of the session
Today == <<"2", "0", "2", "6", "-", "1", "1", "-", "0", "1">>

\* what is typed into the manual form and into the edit form
ManualDescs == { <<"P", "O", "S">>, <<" ", "X">>, <<" ", " ">> }
ManualAmounts == { Num(1, 2) }
EditDescs == { <<>>, <<"X">> }

\* the statement uploaded in the management specification
ViewFiles == { File(NameCsv, "csv", <<BaseRow>>) }

(* ------------------------ page and form actions ------------------------ *)
\* Add Transaction (lines 355-365); the script run also re-renders the
\* upload tab without its buttons pressed.
AddTransaction ==
    /\ page = "Transactions"
    /\ last_id < MaxTxns
    /\ \E description \in ManualDescs, amount \in ManualAmounts :
          /\ description # <<>> /\ Strip(description) # <<>> /\ IsPositive(amount)
          /\ LET final_description == Or(clean_description(Text(description)), description)
             IN  store' = add_transaction(store, last_id, Today, final_description,
                                          amount, categories[Len(categories)])
    /\ last_id' = last_id + 1
    /\ pc' = IF pc = "previewed" THEN "loaded" ELSE pc
    /\ clean_df' = None /\ clean_error' = None
    /\ imported_count' = None /\ import_error' = None /\ db_log' = <<>>
    /\ UNCHANGED <<df, date_col, desc_col, amount_col, category_col,
                   uploaded_file, parse_result, processed_df, show_import,
                   normVars, amtVars, viewVars, concVars>>

UploadStatement == UploadFrom(ViewFiles)

ImportStatement == ImportUpTo(MaxTxns)

\* View & Manage (lines 292-294): the widgets of the page left are gone, the
\* session state stays.
GoView ==
    /\ page = "Transactions"
    /\ page' = "View"
    /\ uploaded_file' = None /\ parse_result' = NoResult /\ df' = <<>>
    /\ pc' = "idle" /\ clean_df' = None /\ clean_error' = None
    /\ imported_count' = None /\ import_error' = None /\ db_log' = <<>>
    /\ UNCHANGED <<date_col, desc_col, amount_col, category_col,
                   processed_df, show_import, store, last_id,
                   selected, editing_id, deleting_id, show_reset_confirm,
                   normVars, amtVars, concVars>>

\* Transactions (lines 287-289)
GoTransactions ==
    /\ page = "View"
    /\ page' = "Transactions"
    /\ selected' = None
    /\ UNCHANGED <<editing_id, deleting_id, show_reset_confirm,
                   normVars, amtVars, pipeVars, appVars, impVars, concVars>>

\* What a run of the View page reaches.  The filters are at their defaults
\* (filtered_df = df).  Lines 603 and 668 look the row up with .iloc[0],
\* which raises IndexError when no row has the id: the run stops there.
Listed == page = "View" /\ store # <<>>
EditEntered == Listed /\ editing_id # None
EditRendered == EditEntered /\ editing_id[1] \in Ids(store)
DeleteEntered == Listed /\ deleting_id # None /\ (EditEntered => EditRendered)
DeleteRendered == DeleteEntered /\ deleting_id[1] \in Ids(store)

\* Reset Data (lines 479-480)
ResetData ==
    /\ page = "View" /\ ~show_reset_confirm
    /\ show_reset_confirm' = TRUE
    /\ UNCHANGED <<page, selected, editing_id, deleting_id,
                   normVars, amtVars, pipeVars, appVars, impVars, concVars>>

\* Yes, Delete All (lines 487-490); the empty list renders no table
ConfirmReset ==
    /\ page = "View" /\ show_reset_confirm
    /\ store' = clear_all_transactions(store)
    /\ show_reset_confirm' = FALSE
    /\ selected' = None
    /\ UNCHANGED <<page, editing_id, deleting_id, uploaded_file, parse_result,
                   processed_df, show_import, last_id,
                   normVars, amtVars, pipeVars, impVars, concVars>>

\* Cancel of the reset confirmation (lines 496-498)
CancelReset ==
    /\ page = "View" /\ show_reset_confirm
    /\ show_reset_confirm' = FALSE
    /\ UNCHANGED <<page, selected, editing_id, deleting_id,
                   normVars, amtVars, pipeVars, appVars, impVars, concVars>>

\* a row of the table is clicked (lines 569-582)
Select ==
    /\ Listed
    /\ \E id \in Ids(store) : selected # Some(id) /\ selected' = Some(id)
    /\ UNCHANGED <<page, editing_id, deleting_id, show_reset_confirm,
                   normVars, amtVars, pipeVars, appVars, impVars, concVars>>

\* Edit (lines 591-593)
Edit ==
    /\ Listed /\ selected # None
    /\ editing_id' = selected
    /\ UNCHANGED <<page, selected, deleting_id, show_reset_confirm,
                   normVars, amtVars, pipeVars, appVars, impVars, concVars>>

\* A variant of Delete that removes the selected transaction at once.
Delete_immediate ==
    /\ Listed /\ selected # None
    /\ store' = delete_transaction(store, selected[1])
    /\ selected' = None
    /\ UNCHANGED <<page, editing_id, deleting_id, show_reset_confirm,
                   uploaded_file, parse_result, processed_df, show_import, last_id,
                   normVars, amtVars, pipeVars, impVars, concVars>>

\* Delete (lines 596-598)
Delete ==
    /\ Listed /\ selected # None
    /\ deleting_id' = selected
    /\ UNCHANGED <<page, selected, editing_id, show_reset_confirm,
                   normVars, amtVars, pipeVars, appVars, impVars, concVars>>

\* Save Changes (lines 650-656): the date and the amount keep the values the
\* form shows, the category the entry the select box shows.
SaveChanges ==
    /\ EditRendered
    /\ \E edit_description \in EditDescs :
          LET edit_id  == editing_id[1]
              edit_row == RowOf(store, edit_id)
              current_index ==
                  IF \E j \in 1..Len(categories) : categories[j] = edit_row.category
                  THEN CHOOSE j \in 1..Len(categories) : categories[j] = edit_row.category
                  ELSE 1
              final_description ==
                  Or(clean_description(Text(edit_description)), edit_description)
          IN  store' = update_transaction(store, edit_id, edit_row.date, final_description,
                                          edit_row.amount, categories[current_index])
    /\ editing_id' = None
    /\ UNCHANGED <<page, selected, deleting_id, show_reset_confirm,
                   uploaded_file, parse_result, processed_df, show_import, last_id,
                   normVars, amtVars, pipeVars, impVars, concVars>>

\* Cancel of the edit form (lines 661-663)
CancelEdit ==
    /\ EditRendered
    /\ editing_id' = None
    /\ UNCHANGED <<page, selected, deleting_id, show_reset_confirm,
                   normVars, amtVars, pipeVars, appVars, impVars, concVars>>

\* Confirm Delete (lines 677-682).  The table keeps its selection by row
\* position: after the removal it is on another row or on none.
ConfirmDelete ==
    /\ DeleteRendered
    /\ store' = delete_transaction(store, deleting_id[1])
    /\ deleting_id' = None
    /\ selected' \in {None} \cup { Some(id) : id \in Ids(store) \ {deleting_id[1]} }
    /\ UNCHANGED <<page, editing_id, show_reset_confirm,
                   uploaded_file, parse_result, processed_df, show_import, last_id,
                   normVars, amtVars, pipeVars, impVars, concVars>>

\* Cancel of the delete confirmation (lines 687-689)
CancelDelete ==
    /\ DeleteRendered
    /\ deleting_id' = None
    /\ UNCHANGED <<page, selected, editing_id, show_reset_confirm,
                   normVars, amtVars, pipeVars, appVars, impVars, concVars>>

(* ------------- clean_transaction_data, statement by statement ---------- *)
\* A running call is its arguments and its locals.  clean_df is a frame: the
\* index labels of its rows and, for each column assigned so far, the values.
FrameCols == {"date", "raw_description", "description", "amount", "category"}

\* line 90: pd.DataFrame()
EmptyFrame == [index |-> <<>>, cols |-> [c \in FrameCols |-> None]]

HasColumns(frame) == \E c \in FrameCols : frame.cols[c] # None

\* clean_df[name] = series: the first column brings its index, a later one
\* is aligned on the frame's index (a label the series lacks gets missing).
SetColumn(frame, name, series, missing) ==
    LET index == IF HasColumns(frame) THEN frame.index
                 ELSE [i \in 1..Len(series) |-> i]
    IN  [index |-> index,
         cols |-> [frame.cols EXCEPT ![name] =
                      Some([k \in 1..Len(index) |->
                               IF index[k] <= Len(series) THEN series[index[k]]
                               ELSE missing])]]

\* the text a missing value of a text column shows as
NanText == <<"n", "a", "n">>

\* the except of lines 123-124
Raise(L, exc, arg) ==
    [L EXCEPT !.result = Some(Failure(exc, arg)), !.stage = "done"]

\* rows of the frame that lines 116-118 keep
KeepAt(frame, k) ==
    KeepRow([date |-> frame.cols["date"][1][k],
             amount |-> frame.cols["amount"][1][k],
             description |-> frame.cols["description"][1][k]])

Restrict(frame, keep) ==
    [index |-> [j \in 1..Len(keep) |-> frame.index[keep[j]]],
     cols |-> [c \in FrameCols |->
                  IF frame.cols[c] = None THEN None
                  ELSE Some([j \in 1..Len(keep) |-> frame.cols[c][1][keep[j]]])]]

\* One statement group of clean_transaction_data run on the locals L.
Step(L) ==
    LET d == L.df
        frame == L.clean_df
    IN  CASE L.stage = "start" ->
                [L EXCEPT !.clean_df = EmptyFrame, !.stage = "dates"]
          [] L.stage = "dates" ->
                IF L.date_col \notin Columns THEN Raise(L, "KeyError", L.date_col)
                ELSE IF \E i \in 1..Len(d) :
                            ~d[i][L.date_col].na /\ ~DateParses(d[i][L.date_col].text)
                     THEN Raise(L, "ValueError", L.date_col)
                ELSE [L EXCEPT
                        !.clean_df = SetColumn(frame, "date",
                            [i \in 1..Len(d) |-> strftime(to_datetime(d[i][L.date_col]))], NA),
                        !.stage = "descriptions"]
          [] L.stage = "descriptions" ->
                IF L.desc_col \notin Columns THEN Raise(L, "KeyError", L.desc_col)
                ELSE LET f1  == SetColumn(frame, "raw_description",
                                    [i \in 1..Len(d) |-> AsStr(d[i][L.desc_col])], NanText)
                         raw == f1.cols["raw_description"][1]
                         f2  == SetColumn(f1, "description",
                                    [k \in 1..Len(raw) |-> clean_description(Text(raw[k]))],
                                    NanText)
                     IN  [L EXCEPT !.clean_df = f2, !.stage = "amounts"]
          [] L.stage = "amounts" ->
                IF L.amount_col \notin Columns THEN Raise(L, "KeyError", L.amount_col)
                ELSE [L EXCEPT
                        !.clean_df = SetColumn(frame, "amount",
                            [i \in 1..Len(d) |-> CleanAmount(d[i][L.amount_col])], NaN),
                        !.stage = "categories"]
          [] L.stage = "categories" ->
                [L EXCEPT
                    !.clean_df =
                        IF CategoryMapped(L.category_col)
                        THEN SetColumn(frame, "category",
                                 [i \in 1..Len(d) |-> Strip(AsStr(d[i][L.category_col[1]]))],
                                 NanText)
                        ELSE [frame EXCEPT !.cols["category"] =
                                 Some([k \in 1..Len(frame.index) |-> Uncategorized])],
                    !.stage = "filter"]
          [] L.stage = "filter" ->
                IF \E c \in {"date", "amount", "description"} : frame.cols[c] = None
                THEN Raise(L, "KeyError", "clean_df")
                ELSE LET all  == [k \in 1..Len(frame.index) |-> k]
                         keep == SelectSeq(all, LAMBDA k : KeepAt(frame, k))
                     IN  [L EXCEPT !.clean_df = Restrict(frame, keep), !.stage = "return"]
          [] L.stage = "return" ->
                IF \E c \in {"date", "description", "amount", "category"} : frame.cols[c] = None
                THEN Raise(L, "KeyError", "clean_df")
                ELSE [L EXCEPT
                        !.result = Some(
                            [df |-> Some([k \in 1..Len(frame.index) |->
                                            [index |-> frame.index[k],
                                             date |-> frame.cols["date"][1][k].text,
                                             description |-> frame.cols["description"][1][k],
                                             amount |-> frame.cols["amount"][1][k],
                                             category |-> frame.cols["category"][1][k]]]),
                             error |-> None]),
                        !.stage = "done"]

\* A variant in which clean_df is one module-level frame that every call
\* writes.
Bind_global_frame(cs, p, L) ==
    [q \in DOMAIN cs |-> IF q = p THEN L ELSE [cs[q] EXCEPT !.clean_df = L.clean_df]]

\* The names a call assigns are locals of its own frame.
Bind(cs, p, L) == [cs EXCEPT ![p] = L]

\* the two calls of the concurrency specification
Callers == {1, 2}

BadDateRow == [BaseRow EXCEPT !["Date"] = Text(BadDate)]

ConcTables ==
    { <<>>, <<BaseRow>>, <<AbcRow, BaseRow>>, <<BadDateRow>>,
      <<[BaseRow EXCEPT !["Description"] = Text(PosOnly)], BaseRow, BaseRow>> }

Locals(d, dc, sc, ac, cc) ==
    [df |-> d, date_col |-> dc, desc_col |-> sc, amount_col |-> ac, category_col |-> cc,
     stage |-> "start", clean_df |-> EmptyFrame, result |-> None]

\* one call executes its next statement group
CallStep(p) ==
    /\ calls[p].stage # "done"
    /\ calls' = Bind(calls, p, Step(calls[p]))
    /\ UNCHANGED <<normVars, amtVars, pipeVars, appVars, impVars, viewVars>>

(* ---------------------------- specifications --------------------------- *)
NormOff == nIn = NA /\ nOut = <<>> /\ nAgain = <<>> /\ npc = "off"
AmtOff  == aIn = NA /\ aOut = NaN /\ apc = "off"
AppStart ==
    /\ uploaded_file = None /\ parse_result = NoResult
    /\ processed_df = None /\ show_import = FALSE
    /\ store = <<>> /\ last_id = 0
    /\ NoImport
    /\ page = "Transactions" /\ selected = None
    /\ editing_id = None /\ deleting_id = None /\ show_reset_confirm = FALSE
PipeOff ==
    /\ df = <<>> /\ date_col = "Date" /\ desc_col = "Description"
    /\ amount_col = "Amount" /\ category_col = None
    /\ clean_df = None /\ clean_error = None /\ pc = "off"
    /\ AppStart

Init ==
    /\ NormOff /\ AmtOff
    /\ df = <<>> /\ date_col = "Date" /\ desc_col = "Description"
    /\ amount_col = "Amount" /\ category_col = None
    /\ clean_df = None /\ clean_error = None /\ pc = "idle"
    /\ AppStart
    /\ calls = <<>>

Next == LoadTable \/ MapColumns \/ Preview

Spec == Init /\ [][Next]_vars

\* the upload tab with its store: upload, column selection, preview, import
NextApp == UploadFile \/ SelectColumns \/ Preview \/ Import

SpecApp == Init /\ [][NextApp]_vars

InitNorm ==
    /\ nIn \in NormInputs /\ nOut = <<>> /\ nAgain = <<>> /\ npc = "raw"
    /\ AmtOff /\ PipeOff /\ calls = <<>>

NextNorm == Clean \/ CleanAgain

SpecNorm == InitNorm /\ [][NextNorm]_vars

InitAmount ==
    /\ aIn \in AmtInputs /\ aOut = NaN /\ apc = "raw"
    /\ NormOff /\ PipeOff /\ calls = <<>>

NextAmount == NormalizeAmount

SpecAmount == InitAmount /\ [][NextAmount]_vars

\* the whole application: manual entry, statement import and the View page
NextView ==
    \/ AddTransaction \/ UploadStatement \/ Preview \/ ImportStatement
    \/ GoView \/ GoTransactions
    \/ ResetData \/ ConfirmReset \/ CancelReset
    \/ Select \/ Edit \/ Delete
    \/ SaveChanges \/ CancelEdit \/ ConfirmDelete \/ CancelDelete

SpecView == Init /\ [][NextView]_vars

\* two calls of clean_transaction_data on separate tables, interleaved
InitConc ==
    /\ NormOff /\ AmtOff /\ PipeOff
    /\ calls \in [Callers -> { Locals(d, "Date", "Description", ac, cc) :
                                  d \in ConcTables, ac \in {"Amount", NoColumn},
                                  cc \in {None, Some("Category")} }]

NextConc == \E p \in Callers : CallStep(p)

SpecConc == InitConc /\ [][NextConc]_vars

(* ======================= properties of the normaliser ================== *)

\* C1: clean_description is idempotent: cleaning a cleaned description again
\* (as saving the edit form does) gives the same text.
C1_Idempotent == npc = "recleaned" => nAgain = nOut

\* C2 (as stated): only the first matching pattern of the list is stripped;
\* no further listed prefix is removed from the remainder.
C2_OnlyFirstPrefixRemoved ==
    (npc # "raw" /\ ~nIn.na) =>
        nOut = JoinSplit(RemoveFirstPrefix(Strip(nIn.text), 1), 1, <<>>, FALSE)

\* The text left when the patterns whose list positions are in K, and only
\* those, match and are removed at their turn, in list order; ok is FALSE
\* when some pattern in K does not match at its turn or one outside K does.
RECURSIVE RemovedInOrder(_, _, _)
RemovedInOrder(text, K, k) ==
    IF k > Len(prefixes_to_remove) THEN [ok |-> TRUE, text |-> text]
    ELSE LET p == prefixes_to_remove[k]
         IN  IF StartsWithCI(text, p) # (k \in K) THEN [ok |-> FALSE, text |-> text]
             ELSE IF k \in K
                  THEN RemovedInOrder(SubSeq(text, FirstNonWS(text, Len(p) + 1), Len(text)),
                                      K, k + 1)
                  ELSE RemovedInOrder(text, K, k + 1)

\* C2 (amended): every pattern of the list is tried once, in list order, on
\* the text the earlier ones left; each is removed at most once, and a listed
\* prefix that a removal uncovers is removed too when it is later in the list.
C2_EachPrefixOnceInOrder ==
    (npc # "raw" /\ ~nIn.na) =>
        \E K \in SUBSET (1..Len(prefixes_to_remove)) :
            LET r == RemovedInOrder(Strip(nIn.text), K, 1)
            IN  r.ok /\ nOut = JoinSplit(r.text, 1, <<>>, FALSE)

\* C2 witness: a text that lost two prefixes (TST* then POS).
C2_TwoPrefixesRemoved ==
    /\ npc = "cleaned"
    /\ nIn = Text(<<"T", "S", "T", "*", "P", "O", "S", "X">>)
    /\ nOut = <<"X">>

(* ==================== properties of amount cleaning ==================== *)
RECURSIVE Pow10(_)
Pow10(n) == IF n = 0 THEN 1 ELSE 10 * Pow10(n - 1)

\* equality of values, whatever number of decimals they are written with
SameNumber(a, b) ==
    /\ a.kind = b.kind
    /\ a.kind = "num" => a.m * Pow10(b.e) = b.m * Pow10(a.e)
    /\ a.kind = "inf" => a.m = b.m

InsertAt(s, i, c) == SubSeq(s, 1, i) \o <<c>> \o SubSeq(s, i + 1, Len(s))

\* C6: amount cleaning removes every '$' and ',', reads '(' as '-', removes
\* ')', trims, parses and takes the absolute value: the three examples, and a
\* value, its negation and its parenthesised form give the same amount.
C6_AmountNormalization ==
    apc = "done" =>
        /\ aIn = Text(<<"$", "1", ",", "2", "3", "4", ".", "5", "6">>)
              => SameNumber(aOut, Num(123456, 2))
        /\ aIn = Text(<<"(", "4", "5", ".", "0", "0", ")">>) => SameNumber(aOut, Num(45, 0))
        /\ aIn = Text(<<"1", "2", ".", "5", " ">>) => SameNumber(aOut, Num(125, 1))
        /\ aOut.m >= 0
        /\ ~aIn.na =>
              /\ \A i \in 0..Len(aIn.text) :
                    /\ CleanAmount(Text(InsertAt(aIn.text, i, "$"))) = aOut
                    /\ CleanAmount(Text(InsertAt(aIn.text, i, ","))) = aOut
                    /\ CleanAmount(Text(InsertAt(aIn.text, i, ")"))) = aOut
              /\ CleanAmount(Text(<<" ">> \o aIn.text \o <<" ">>)) = aOut
              /\ CleanAmount(Text(StrReplace(aIn.text, "(", <<"-">>))) = aOut
              /\ IsDecimal(aIn.text) =>
                    /\ aOut.kind = "num"
                    /\ CleanAmount(Text(<<"-">> \o aIn.text)) = aOut
                    /\ CleanAmount(Text(<<"(">> \o aIn.text \o <<")">>)) = aOut

\* C6 witness: the parenthesised example was cleaned to 45.00.
C6_ParenthesisedCleaned ==
    /\ apc = "done"
    /\ aIn = Text(<<"(", "4", "5", ".", "0", "0", ")">>)
    /\ aOut = Num(4500, 2)

(* ====================== properties of the pipeline ===================== *)
MappedOK == date_col \in Columns /\ desc_col \in Columns /\ amount_col \in Columns

Called == pc = "previewed"

Records == IF clean_df = None THEN <<>> ELSE clean_df[1]

InOutput(i) == \E k \in 1..Len(Records) : Records[k].index = i

\* what the specification asks of a row: its date parses, its amount parses
\* to a positive finite number, its cleaned description is not empty
DateOK(i) ==
    LET c == df[i][date_col] IN ~c.na /\ c.text # <<>> /\ DateParses(c.text)

DateUnparseable(i) ==
    LET c == df[i][date_col] IN ~c.na /\ ~DateParses(c.text)

AmountOK(i) ==
    LET a == CleanAmount(df[i][amount_col]) IN a.kind = "num" /\ a.m > 0

DescOK(i) == clean_description(df[i][desc_col]) # <<>>

\* C3: a row whose date cannot be parsed is left out while every valid row of
\* the table is returned; a bad row never makes the call return a failure.
C3_BadRowNeverFailsCall ==
    (Called /\ MappedOK) =>
        /\ clean_error = None
        /\ clean_df # None
        /\ \A i \in 1..Len(df) :
              /\ (DateOK(i) /\ AmountOK(i) /\ DescOK(i)) => InOutput(i)
              /\ DateUnparseable(i) => ~InOutput(i)

\* C4: a row whose non-blank raw description is cleaned to the empty string
\* (only a known prefix, such as POS) is kept, with the raw text as description.
C4_EmptiedDescriptionFallsBack ==
    (Called /\ MappedOK /\ clean_error = None) =>
        \A i \in 1..Len(df) :
            LET c == df[i][desc_col]
            IN  (/\ ~c.na /\ Strip(c.text) # <<>> /\ clean_description(c) = <<>>
                 /\ DateOK(i) /\ AmountOK(i))
                => \E k \in 1..Len(Records) :
                      Records[k].index = i /\ Records[k].description = c.text

\* C5: with all required columns present the call succeeds, and a row is in
\* the output if and only if its date parses, its amount parses to a positive
\* finite number and its cleaned description is not empty.
C5_RowKeptIffValid ==
    (Called /\ MappedOK) =>
        /\ clean_df # None
        /\ \A i \in 1..Len(df) :
              InOutput(i) <=> (DateOK(i) /\ AmountOK(i) /\ DescOK(i))

\* C7: every output record's amount is a finite number strictly above zero.
C7_AmountPositiveFinite ==
    Called =>
        \A k \in 1..Len(Records) :
            Records[k].amount.kind = "num" /\ Records[k].amount.m > 0

\* t is s without its leading and trailing whitespace
IsTrimOf(t, s) ==
    \E i \in 1..(Len(s) + 1), j \in 0..Len(s) :
        /\ t = SubSeq(s, i, j)
        /\ \A k \in 1..(i - 1) : s[k] \in WS
        /\ \A k \in (j + 1)..Len(s) : s[k] \in WS
        /\ t # <<>> => (t[1] \notin WS /\ t[Len(t)] \notin WS)

\* C8: with a category column mapped and present, each record's category is
\* its row's cell as text, trimmed; with no category column mapped (None),
\* every record's category is exactly "Uncategorized".
C8_CategoryNormalization ==
    Called =>
        \A k \in 1..Len(Records) :
            LET r == Records[k]
            IN  /\ category_col = None => r.category = Uncategorized
                /\ (category_col # None /\ category_col[1] \in Columns) =>
                      IsTrimOf(r.category, AsStr(df[r.index][category_col[1]]))

\* C8 witness: a record took its category, trimmed, from the mapped column.
C8_CategoryFromColumn ==
    /\ Called /\ category_col = Some("Category")
    /\ \E k \in 1..Len(Records) :
          /\ Records[k].category = <<"F", "o", "o", "d">>
          /\ df[Records[k].index]["Category"] = Text(Food)

\* C9: every record handed on has a non-empty category.
C9_CategoryNonEmpty ==
    Called => \A k \in 1..Len(Records) : Records[k].category # <<>>

\* C10: a row whose description cell is missing, empty or blank is left out.
C10_MissingDescriptionExcluded ==
    (Called /\ MappedOK) =>
        \A k \in 1..Len(Records) :
            LET c == df[Records[k].index][desc_col]
            IN  ~(c.na \/ Strip(c.text) = <<>>)

\* C11: on success the output records are a subsequence of the input rows:
\* each comes from one row, in the rows' order, and none is added.
C11_OutputIsSubsequence ==
    (Called /\ clean_df # None) =>
        /\ Len(Records) <= Len(df)
        /\ \A k \in 1..Len(Records) :
              /\ Records[k].index \in 1..Len(df)
              /\ Records[k].description =
                    clean_description(Text(AsStr(df[Records[k].index][desc_col])))
        /\ \A k, l \in 1..Len(Records) : k < l => Records[k].index < Records[l].index

\* C11 witness: two different rows both survived.
C11_TwoRowsInOrder ==
    /\ Called /\ Len(df) = 2 /\ Len(Records) = 2
    /\ Records[1].description # Records[2].description

\* C12: when every row of a table is rejected by row-level validation, the
\* call succeeds with zero records and no message.
C12_AllRejectedIsEmptySuccess ==
    (/\ Called /\ MappedOK /\ Len(df) >= 1
     /\ \A i \in 1..Len(df) : ~(DateOK(i) /\ AmountOK(i) /\ DescOK(i)))
    => (clean_error = None /\ clean_df = Some(<<>>))

\* C13: a date, description or amount column that is not in the header makes
\* the call fail as a whole: a message and no records at all.
C13_MissingColumnFailsCall ==
    (Called /\ ~MappedOK) => (clean_df = None /\ clean_error # None)

\* C13 witness: a two-row table cleaned with an amount column it does not have.
C13_AmountColumnMissing ==
    /\ Called /\ Len(df) = 2 /\ amount_col = NoColumn
    /\ date_col = "Date" /\ desc_col = "Description"
    /\ clean_df = None /\ clean_error # None

\* C14 (as stated): a category column name that is not in the header makes
\* the call fail with a mapping error.
C14_AbsentCategoryFailsCall ==
    (Called /\ category_col = Some(NoColumn)) => (clean_df = None /\ clean_error # None)

\* C14 (amended): a category column name that is not in the header never
\* fails the call: a failure, if any, names the date, description or amount
\* column, and on success every record's category is "Uncategorized".
C14_AbsentCategoryDefaults ==
    (Called /\ category_col = Some(NoColumn)) =>
        /\ clean_error # None => clean_error[1].arg \in {date_col, desc_col, amount_col}
        /\ clean_error = None =>
              /\ clean_df # None
              /\ \A k \in 1..Len(Records) :
                    Records[k].category =
                        <<"U", "n", "c", "a", "t", "e", "g", "o", "r", "i", "z", "e", "d">>

\* C14 witness: a record got the default category under an absent category column.
C14_DefaultUnderAbsentColumn ==
    /\ Called /\ category_col = Some(NoColumn) /\ clean_error = None
    /\ Len(Records) >= 1 /\ Records[1].category = Uncategorized

(* ================= properties of the upload and the store ============== *)
\* the name from its last dot on, the whole name when it has none
Extension(name) ==
    LET dots == {i \in 1..Len(name) : name[i] = "."}
    IN  IF dots = {} THEN name
        ELSE SubSeq(name, CHOOSE i \in dots : \A j \in dots : j <= i, Len(name))

ParsedByExtension(f) ==
    \/ Extension(f.name) = <<".", "c", "s", "v">> /\ f.format = "csv"
    \/ Extension(f.name) \in {<<".", "x", "l", "s", "x">>, <<".", "x", "l", "s">>}
          /\ f.format = "excel"

\* C15: the parser is chosen by the file extension alone: .csv and
\* .xlsx/.xls are parsed, any other extension fails whatever the content, an
\* unparseable file fails, and after a failure no record reaches the store.
C15_ParseByExtensionOnly ==
    /\ [](uploaded_file # None =>
            LET f == uploaded_file[1]
            IN  /\ ParsedByExtension(f) =>
                      /\ parse_result = [df |-> Some(f.table), error |-> None]
                      /\ pc \in {"loaded", "previewed"}
                /\ ~ParsedByExtension(f) =>
                      /\ parse_result.df = None /\ parse_result.error # None
                      /\ pc = "rejected")
    /\ [][(parse_result.error # None \/ parse_result'.error # None) => store' = store]_vars

\* C15 witness: a CSV table under a .txt name was refused while an earlier
\* preview was still waiting to be imported.
C15_TxtRefusedWithPendingImport ==
    /\ uploaded_file # None
    /\ uploaded_file[1].name = NameTxt /\ uploaded_file[1].format = "csv"
    /\ Len(uploaded_file[1].table) >= 1
    /\ parse_result.error # None /\ pc = "rejected"
    /\ show_import /\ processed_df # None /\ Len(processed_df[1]) >= 1

\* C16: each call of parse_uploaded_file and of clean_transaction_data returns
\* exactly one of a data result and a message.
C16_DataXorMessage ==
    /\ uploaded_file # None => (parse_result.df = None) # (parse_result.error = None)
    /\ Called => (clean_df = None) # (clean_error = None)

\* C16 witness: the parse succeeded and the cleaning of its table failed.
C16_ParsedThenCleaningFailed ==
    /\ Called /\ parse_result.df # None /\ parse_result.error = None
    /\ Len(df) >= 1 /\ clean_df = None /\ clean_error # None

SameFields(stored, rec) ==
    /\ stored.date = rec.date /\ stored.description = rec.description
    /\ stored.amount = rec.amount /\ stored.category = rec.category

\* C17: no deduplication: every import appends its whole batch to the store,
\* whatever the store holds already, and equal rows of one table are kept or
\* dropped together.
C17_NoDeduplication ==
    /\ [][store' # store =>
            /\ processed_df # None
            /\ Len(store') = Len(store) + Len(processed_df[1])
            /\ SubSeq(store', 1, Len(store)) = store
            /\ \A k \in 1..Len(processed_df[1]) :
                  SameFields(store'[Len(store) + k], processed_df[1][k])]_vars
    /\ []((Called /\ clean_df # None) =>
            \A i, j \in 1..Len(df) : df[i] = df[j] => (InOutput(i) <=> InOutput(j)))

\* C17 witness: a table of two equal valid rows was imported twice: 2N = 4
\* equal records in the store.
C17_SameTableImportedTwice ==
    /\ Len(store) = 4
    /\ \A k \in 1..4 : SameFields(store[k], store[1])
    /\ \A k \in 1..4 : store[k].id = k

\* C18: clean_transaction_data leaves its input table as the parser gave it,
\* whether the call succeeds or fails.
C18_InputTableUnchanged ==
    Called => (uploaded_file # None /\ df = uploaded_file[1].table)

\* C18 witness: a call that cleaned the descriptions of a two-row table.
C18_CleanedWithoutMutation ==
    /\ Called /\ Len(df) = 2 /\ Len(Records) = 2
    /\ df[1]["Description"] = Text(JoesDiner)
    /\ Records[1].description # JoesDiner

\* C19: the three-row example, cleaned with no category column, gives two
\* records in order, (2024-01-15, JOES DINER, 23.45, Uncategorized) and
\* (2024-01-16, WALMART, 10.00, Uncategorized); the middle row is dropped.
C19_EndToEndExample ==
    (Called /\ df = ExampleTable /\ MappedOK /\ category_col = None) =>
        /\ clean_error = None
        /\ Len(Records) = 2
        /\ Records[1].date = <<"2", "0", "2", "4", "-", "0", "1", "-", "1", "5">>
        /\ Records[1].description = <<"J", "O", "E", "S", " ", "D", "I", "N", "E", "R">>
        /\ SameNumber(Records[1].amount, Num(2345, 2))
        /\ Records[1].category = Uncategorized
        /\ Records[2].date = <<"2", "0", "2", "4", "-", "0", "1", "-", "1", "6">>
        /\ Records[2].description = <<"W", "A", "L", "M", "A", "R", "T">>
        /\ SameNumber(Records[2].amount, Num(10, 0))
        /\ Records[2].category = Uncategorized

\* the seven prefixes the specification lists
ListedPrefixes ==
    { <<"T", "S", "T", "*">>, <<"S", "Q", " ", "*">>, <<"P", "P", "*">>,
      <<"S", "P", " ", "*">>, <<"P", "A", "Y", "P", "A", "L", " ", "*">>,
      <<"P", "O", "S">>, <<"D", "E", "B", "I", "T">> }

\* C20: a listed prefix at the start of the trimmed text, in any letter case,
\* is stripped with the whitespace after it; a text that starts with none is
\* unchanged apart from whitespace; the two examples.
C20_ListedPrefixesStripped ==
    (npc # "raw" /\ ~nIn.na) =>
        LET t == Strip(nIn.text)
        IN  /\ \A p \in ListedPrefixes :
                  StartsWithCI(t, p) =>
                      \E j \in (Len(p) + 1)..(Len(t) + 1) :
                          nOut = JoinSplit(SubSeq(t, j, Len(t)), 1, <<>>, FALSE)
            /\ (\A p \in ListedPrefixes : ~StartsWithCI(t, p)) =>
                  nOut = JoinSplit(t, 1, <<>>, FALSE)
            /\ nIn.text = Lakewood =>
                  nOut = <<"L", "A", "K", "E", "W", "O", "O", "D", " ",
                           "T", "R", "U", "C", "K", " ", "P", "A">>
            /\ nIn.text = CoffeeShop =>
                  nOut = <<"C", "o", "f", "f", "e", "e", " ", "S", "h", "o", "p">>

\* C20 witness: the SQ * example was cleaned to "Coffee Shop".
C20_CoffeeShopCleaned ==
    /\ npc = "cleaned" /\ nIn = Text(CoffeeShop)
    /\ nOut = <<"C", "o", "f", "f", "e", "e", " ", "S", "h", "o", "p">>

\* the characters of s that are not whitespace, in order
NonWS(s) == SelectSeq(s, LAMBDA c : c \notin WS)

\* C21: the normaliser's output has no whitespace at either end and no two
\* whitespace characters in a row; what separates its words is one space, and
\* its other characters are those of the text after prefix removal.
C21_WhitespaceNormalForm ==
    npc # "raw" =>
        /\ nOut # <<>> => nOut[1] \notin WS /\ nOut[Len(nOut)] \notin WS
        /\ \A i \in 1..(Len(nOut) - 1) : ~(nOut[i] \in WS /\ nOut[i + 1] \in WS)
        /\ \A i \in 1..Len(nOut) : nOut[i] \in WS => nOut[i] = " "
        /\ ~nIn.na => NonWS(nOut) = NonWS(RemovePrefixes(Strip(nIn.text), 1))

\* C21 witness: a text with whitespace at both ends and a run of three
\* whitespace characters inside was cleaned to two words and one space.
C21_RunCollapsed ==
    npc = "cleaned" /\ nIn = Text(Spaced) /\ nOut = <<"X", " ", "P">>

\* C22: the normaliser returns the empty string for the empty string and for
\* a missing value, and a call changes nothing but its result.
C22_EmptyForEmptyAndMissing ==
    /\ []((npc # "raw" /\ (nIn.na \/ nIn.text = <<>>)) => nOut = <<>>)
    /\ [][(npc = "raw" /\ npc' = "cleaned") =>
              UNCHANGED <<nIn, nAgain, amtVars, pipeVars, appVars, impVars, viewVars, concVars>>]_vars

\* C22 witness: a missing value was cleaned to the empty string.
C22_MissingCleanedToEmpty ==
    npc = "cleaned" /\ nIn = NA /\ nOut = <<>>

\* a step in which Import All Transactions was clicked: only that run has
\* an imported_count or a caught exception
ImportStep == imported_count' # None \/ import_error' # None

\* C23: an import hands the whole previewed sequence to one call of
\* add_bulk_transactions: the call executes one INSERT per record, in order,
\* then one COMMIT, and returns the number of records; the store gets all of
\* them, or (when the call raises) none.
C23_OneBulkCall ==
    [][ImportStep =>
          LET rows == processed_df[1]
              n    == Len(rows)
          IN  /\ import_error' = None =>
                    /\ Len(db_log') = n + 1
                    /\ \A i \in 1..n : db_log'[i] = [op |-> "INSERT", row |-> rows[i]]
                    /\ db_log'[n + 1] = [op |-> "COMMIT"]
                    /\ imported_count' = Some(n)
                    /\ Len(store') = Len(store) + n
                    /\ SubSeq(store', 1, Len(store)) = store
                    /\ \A i \in 1..n : SameFields(store'[Len(store) + i], rows[i])
              /\ import_error' # None =>
                    /\ imported_count' = None
                    /\ store' = store
                    /\ \A i \in 1..Len(db_log') : db_log'[i].op = "INSERT"]_vars

\* C23 witness: two records were imported by one call, three statements.
C23_TwoRecordsOneCommit ==
    /\ imported_count = Some(2) /\ import_error = None
    /\ Len(db_log) = 3 /\ db_log[3].op = "COMMIT"
    /\ Len(store) >= 2

\* the records the last import inserted
Inserted == Durable(db_log)

\* C25: what an import inserts is the cleaning of the file now uploaded under
\* the column mapping now selected.
C25_ImportIsCurrentCleaning ==
    (imported_count # None /\ Inserted # <<>>) =>
        LET r == clean_transaction_data(df, date_col, desc_col, amount_col, category_col)
        IN  /\ uploaded_file # None /\ df = uploaded_file[1].table
            /\ r.error = None
            /\ Inserted = r.df[1]

\* C28: an import runs only on a preview kept by a successful Preview; a
\* successful import removes the preview from the session, so the store does
\* not grow again before the next Preview; a failed import keeps it.
C28_ImportOncePerPreview ==
    /\ [](show_import => processed_df # None)
    /\ [][ImportStep => (show_import /\ processed_df # None)]_vars
    /\ [][store' # store => (ImportStep /\ import_error' = None)]_vars
    /\ [][(ImportStep /\ import_error' = None) =>
              (~show_import' /\ processed_df' = None)]_vars
    /\ [][(ImportStep /\ import_error' # None) =>
              UNCHANGED <<show_import, processed_df, store, last_id, page, parse_result>>]_vars
    /\ [][((show_import' /\ ~show_import) \/
           (processed_df' # None /\ processed_df' # processed_df)) =>
              (clean_error' = None /\ clean_df' # None
                  /\ processed_df' = clean_df' /\ show_import')]_vars

\* C28 witness: after one import succeeded, a later import of a new preview
\* failed and its preview is still in the session.
C28_FailedImportKeepsPreview ==
    /\ import_error # None /\ imported_count = None
    /\ show_import /\ processed_df # None /\ Len(processed_df[1]) >= 1
    /\ Len(store) >= 1

\* C24: two calls share no mutable state: a step of one call leaves the
\* other call's locals alone, and under every interleaving each call returns
\* what the function returns for its arguments when run alone.
C24_CallsIndependent ==
    /\ [](\A p \in DOMAIN calls :
             calls[p].stage = "done" =>
                 calls[p].result =
                     Some(clean_transaction_data(calls[p].df, calls[p].date_col,
                              calls[p].desc_col, calls[p].amount_col,
                              calls[p].category_col)))
    /\ [][\A p, q \in DOMAIN calls :
              (p # q /\ calls'[p] # calls[p]) => calls'[q] = calls[q]]_vars

\* C24 witness: one call returned its records while the other call, on a
\* different table, was between its description and its filter statements.
C24_ReturnedWhileOtherRuns ==
    /\ DOMAIN calls = Callers
    /\ calls[1].stage = "done" /\ calls[1].result # None
    /\ calls[1].result[1].error = None /\ Len(calls[1].result[1].df[1]) >= 1
    /\ calls[2].stage \in {"amounts", "categories", "filter"}
    /\ calls[2].df # calls[1].df /\ Len(calls[2].df) >= 1

\* C26: whenever the View page enters the edit form (the delete
\* confirmation) for editing_id (deleting_id), a transaction with that id is
\* in the store.
C26_FormIdExists ==
    /\ EditEntered => editing_id[1] \in Ids(store)
    /\ DeleteEntered => deleting_id[1] \in Ids(store)

\* C27: every stored transaction has a non-empty description and an amount
\* greater than zero.
C27_StoredRecordsValid ==
    \A k \in 1..Len(store) :
        store[k].description # <<>> /\ IsPositive(store[k].amount)

\* C29: a transaction leaves the store only by Confirm Delete on the id that
\* Delete made pending, which removes that transaction alone, or by Yes,
\* Delete All under a pending reset; setting a pending flag and cancelling it
\* leave the store unchanged.
C29_TwoStepDeletion ==
    /\ [][(Ids(store) \ Ids(store') # {}) =>
             \/ /\ deleting_id # None /\ deleting_id' = None
                /\ store' = SelectSeq(store, LAMBDA row : row.id # deleting_id[1])
             \/ /\ show_reset_confirm /\ ~show_reset_confirm'
                /\ store' = <<>>]_vars
    /\ [][(deleting_id' # None /\ deleting_id' # deleting_id) =>
             (selected # None /\ deleting_id' = selected /\ store' = store)]_vars
    /\ [][(show_reset_confirm' /\ ~show_reset_confirm) => store' = store]_vars
    /\ [][(deleting_id # None /\ deleting_id' = None) =>
             (store' = store \/ Ids(store') = Ids(store) \ {deleting_id[1]})]_vars
    /\ [][(show_reset_confirm /\ ~show_reset_confirm') =>
             (store' = store \/ store' = <<>>)]_vars

\* C29 witness: of two transactions the second was deleted on confirmation
\* and the first is still stored.
C29_SecondDeletedFirstKept ==
    /\ last_id = 2 /\ Ids(store) = {1}
    /\ deleting_id = None /\ ~show_reset_confirm /\ page = "View"

====
